---- MODULE Spec2Model ----
(***************************************************************************)
(* scope-vfx: the three frame effects (chromatic_aberration, vhs_retro,    *)
(* warhol) and the VFXPipeline chain that sequences them.                  *)
(*                                                                         *)
(* Tensors live in a heap of storages (storage id -> batch), so that       *)
(* "returns the input itself", "clones" and "writes in place" are          *)
(* different things.  A batch is [T, H, W, px] with px a function over     *)
(* <<t, y, x, c>>, 0-based.  float32 values are fixed-point integers:      *)
(* a pixel value v in [0,1] is the integer v * Scale.                      *)
(***************************************************************************)
EXTENDS Integers, Sequences, FiniteSets, TLC

VARIABLES
    heap,       \* storage id -> batch: the tensors alive after the call
    arg,        \* storage id of the batch the caller passed in
    ret,        \* storage id of the batch returned (0: the call raised)
    snap,       \* the caller's batch as it was before the call
    op,         \* the call made: "none", "chromatic", "vhs", "warhol", "pipeline"
    par,        \* the arguments of that call
    aux,        \* what the call computed on its way (shifts, stages run, bands, ...)
    err,        \* "none", or the exception the call raised
    palettes    \* the module-level palette table _PALETTES

vars == <<heap, arg, ret, snap, op, par, aux, err, palettes>>

(***************************************************************************)
(* Numbers                                                                 *)
(***************************************************************************)

\* The fixed-point unit of a [0,1] float: 1.0 is Scale (a multiple of 255
\* and of 100, so that x/255 and the palette's two-decimal colours are exact).
Scale == 5100

Max(a, b) == IF a >= b THEN a ELSE b
Min(a, b) == IF a <= b THEN a ELSE b

\* x.clamp(lo, hi)
Clamp(x, lo, hi) == Min(Max(x, lo), hi)

\* int(n/d) of Python: truncation toward zero (d > 0).
Trunc(n, d) == IF n >= 0 THEN n \div d ELSE -((-n) \div d)

\* round(n/d) of Python 3 and torch.round: to nearest, ties to even (d > 0).
Round(n, d) ==
    LET q == n \div d
        r == n - q * d
    IN  IF 2 * r < d THEN q
        ELSE IF 2 * r > d THEN q + 1
        ELSE IF q % 2 = 0 THEN q ELSE q + 1

\* 1000 * sin of an angle of the first quadrant, for the angles the model's
\* frame heights and directions produce.
SinQ1(deg) ==
    CASE deg = 0  -> 0
      [] deg = 18 -> 309
      [] deg = 30 -> 500
      [] deg = 36 -> 588
      [] deg = 45 -> 707
      [] deg = 54 -> 809
      [] deg = 60 -> 866
      [] deg = 72 -> 951
      [] deg = 90 -> 1000

\* 1000 * sin(deg degrees), any integer angle whose reduction is in the table.
Sin1000(deg) ==
    LET d == deg % 360
    IN  IF d <= 90 THEN SinQ1(d)
        ELSE IF d <= 180 THEN SinQ1(180 - d)
        ELSE IF d <= 270 THEN -SinQ1(d - 180)
        ELSE -SinQ1(360 - d)

Cos1000(deg) == Sin1000(deg + 90)

\* Evaluates a function on its whole domain once.
Force(f) == f @@ <<>>

(***************************************************************************)
(* Batches                                                                 *)
(***************************************************************************)

Dom(T, H, W) == (0 .. T - 1) \X (0 .. H - 1) \X (0 .. W - 1) \X (0 .. 2)

MkBatch(T, H, W, v) == [T |-> T, H |-> H, W |-> W, px |-> Force(v)]

\* Input frames as the host delivers them, values in [0, 255].
RawGray == MkBatch(2, 4, 4, [p \in Dom(2, 4, 4) |-> 128])
RawRamp == MkBatch(2, 4, 4, [p \in Dom(2, 4, 4) |-> 2 * (48 * p[1] + 12 * p[2] + 3 * p[3] + p[4])])
RawEdge == MkBatch(1, 4, 4, [p \in Dom(1, 4, 4) |-> IF p[3] < 2 THEN 0 ELSE 255])
RawWhite == MkBatch(1, 4, 4, [p \in Dom(1, 4, 4) |-> 255])
RawBlack == MkBatch(1, 4, 4, [p \in Dom(1, 4, 4) |-> 0])
RawTall == MkBatch(1, 6, 3, [p \in Dom(1, 6, 3) |-> 15 * p[2] + 40 * p[3] + 20 * p[4]])
\* A frame above the documented range: nothing in the pipeline rejects it.
RawHot == MkBatch(1, 4, 4, [p \in Dom(1, 4, 4) |-> IF p[2] < 2 THEN 300 ELSE 100])

RawBatches == {RawGray, RawRamp, RawEdge, RawWhite, RawBlack, RawTall}

\* frames.to(dtype=float32) / 255.0
Normalise(b) == [b EXCEPT !.px = Force([p \in DOMAIN b.px |-> (b.px[p] * Scale) \div 255])]

\* The batches handed to an effect called directly: frames in [0, 1].
Batches == {Normalise(b) : b \in RawBatches}

\* x.clamp(0, 1) of a batch
ClampBatch(b) == [b EXCEPT !.px = Force([p \in DOMAIN b.px |-> Clamp(b.px[p], 0, Scale)])]

(***************************************************************************)
(* The heap                                                                *)
(***************************************************************************)

\* A new tensor holding batch b: a storage id no live tensor has.
Alloc(hp, b) ==
    LET id == IF DOMAIN hp = {} THEN 1
              ELSE 1 + CHOOSE m \in DOMAIN hp : \A k \in DOMAIN hp : k <= m
    IN  [heap |-> hp @@ (id :> b), ref |-> id]

\* A faulty clone: result = frames, the same storage under another name.
CloneAlias(hp, f) == [heap |-> hp, ref |-> f]

\* frames.clone(): a new storage holding a copy
Clone(hp, f) == Alloc(hp, hp[f])

\* What is still referenced once the call has returned.
Collect(hp, keep) == [id \in (DOMAIN hp) \cap keep |-> hp[id]]

(***************************************************************************)
(* chromatic_aberration                                                    *)
(***************************************************************************)

\* A faulty roll: a shift that clamps at the edge instead of wrapping.
RollIdxNoWrap(n, s) == [i \in 1 .. n |-> Clamp(i - 1 - s, 0, n - 1)]

\* torch.roll along one axis of size n by shift s, as ATen does it: the
\* source indices are narrow(start, n - start) followed by narrow(0, start),
\* start = (n - s) mod n.  RollIdx(n, s)[i + 1] is the source of position i.
RollIdx(n, s) ==
    LET start == (n - s) % n
        idx == [i \in 1 .. n |-> i - 1]
    IN  SubSeq(idx, start + 1, n) \o SubSeq(idx, 1, start)

\* torch.roll(frames[..., c], shifts=(sy, sx), dims=(1, 2)): the (T, H, W)
\* plane of channel c of batch b, rolled along H then along W.
RollChannel(b, c, sy, sx) ==
    LET ys == RollIdx(b.H, sy)
        xs == RollIdx(b.W, sx)
    IN  [q \in (0 .. b.T - 1) \X (0 .. b.H - 1) \X (0 .. b.W - 1) |->
            b.px[<<q[1], ys[q[2] + 1], xs[q[3] + 1], c>>]]

\* result[..., c] = plane: an in-place write into storage r.
WriteChannel(hp, r, c, plane) ==
    [hp EXCEPT ![r].px =
        Force([p \in DOMAIN @ |-> IF p[4] = c THEN plane[<<p[1], p[2], p[3]>>] ELSE @[p]])]

\* max_shift = int(intensity * 20); intensity is in hundredths.
MaxShift(intensity) == Trunc(intensity * 20, 100)

\* dx = int(round(max_shift * cos(rad))), dy = int(round(max_shift * sin(rad)))
ShiftDx(ms, angle) == Round(ms * Cos1000(angle), 1000)
ShiftDy(ms, angle) == Round(ms * Sin1000(angle), 1000)

\* Faulty early returns: none is taken.
ChromaticIdentityNever(intensity, angle) == FALSE

\* The early returns of chromatic_aberration: the input itself comes back.
ChromaticIdentity(intensity, angle) ==
    \/ intensity <= 0
    \/ MaxShift(intensity) = 0
    \/ (ShiftDx(MaxShift(intensity), angle) = 0 /\ ShiftDy(MaxShift(intensity), angle) = 0)

\* chromatic_aberration(frames, intensity, angle) on heap hp, frames = storage f:
\* the heap after the call and the storage returned.
chromatic_aberration(hp, f, intensity, angle) ==
    IF ChromaticIdentity(intensity, angle)
    THEN [heap |-> hp, ref |-> f, dx |-> 0, dy |-> 0]
    ELSE
        LET ms == MaxShift(intensity)
            dx == ShiftDx(ms, angle)
            dy == ShiftDy(ms, angle)
            cl == Clone(hp, f)
            h1 == WriteChannel(cl.heap, cl.ref, 0, RollChannel(cl.heap[f], 0, dy, dx))
            h2 == WriteChannel(h1, cl.ref, 2, RollChannel(h1[f], 2, -dy, -dx))
        IN  [heap |-> h2, ref |-> cl.ref, dx |-> dx, dy |-> dy]

(***************************************************************************)
(* vhs_retro                                                               *)
(***************************************************************************)

\* One sub-stage of an effect: a new tensor holding the pixels v computed
\* from the current result r.ref, and the stage's name added to the trace.
Stage(r, name, v) ==
    LET a == Alloc(r.heap, [r.heap[r.ref] EXCEPT !.px = Force(v)])
    IN  [heap |-> a.heap, ref |-> a.ref, trace |-> Append(r.trace, name)]

\* mask = 1.0 - scan_line_intensity * 0.5 * (1.0 - wave), wave = sin(rows *
\* (scan_line_count * 3.14159 / H)); in units of 1/200000, sli in hundredths.
ScanMask(H, r, sli, count) == 200000 - sli * (1000 - Sin1000((180 * r * count) \div H))

\* result * mask.view(1, H, 1, 1)
ScanLines(b, sli, count) ==
    [p \in DOMAIN b.px |-> Round(b.px[p] * ScanMask(b.H, p[2], sli, count), 200000)]

\* One outcome of torch.randn_like: a field of standard-normal samples in
\* tenths, one per pixel and channel, picked by the state of the generator.
RandnLike(seed, p) == (((7 * p[1] + 5 * p[2] + 3 * p[3] + p[4] + seed) * 13) % 41) - 20

\* result + randn_like(result) * (noise * 0.15), noise in hundredths
Grain(b, noise, seed) ==
    [p \in DOMAIN b.px |-> b.px[p] + Round(RandnLike(seed, p) * noise * 15 * (Scale \div 100), 1000)]

\* Horizontal sampling position of pixel x of row r, in 1/10000 pixel:
\* gx = grid_x + max_shift * sin(rows_norm * 6.2832 * 3.0), un-normalised with
\* align_corners=True and clipped to the border (padding_mode="border").
TrackDeg(H, r) == (2160 * r) \div (H - 1) - 1080
SampleX(H, W, r, x, tracking) ==
    Clamp(10000 * x + Round(tracking * Sin1000(TrackDeg(H, r)) * (W - 1), 400),
          0, 10000 * (W - 1))

\* grid_sample(mode="bilinear"): the two nearest pixels of the row, weighted.
GridSample(b, tracking) ==
    [p \in DOMAIN b.px |->
        LET ix == SampleX(b.H, b.W, p[2], p[3], tracking)
            x0 == ix \div 10000
            fx == ix - 10000 * x0
            v0 == b.px[<<p[1], p[2], x0, p[4]>>]
            v1 == IF x0 + 1 <= b.W - 1 THEN b.px[<<p[1], p[2], x0 + 1, p[4]>>] ELSE 0
        IN  Round(v0 * (10000 - fx) + v1 * fx, 10000)]

\* A faulty grain gate: noise >= 0 lets a zero noise draw.
GrainOnAlways(noise) == noise >= 0

\* The three gates of vhs_retro.
ScanOn(sli, count) == sli > 0 /\ count > 0
GrainOn(noise) == noise > 0
TrackingOn(tracking) == tracking > 0

\* vhs_retro(frames, scan_line_intensity, scan_line_count, noise, tracking) on
\* heap hp, frames = storage f; seed picks what torch.randn_like returns.
vhs_retro(hp, f, sli, count, noise, tracking, seed) ==
    LET cl == Clone(hp, f)
        r0 == [heap |-> cl.heap, ref |-> cl.ref, trace |-> <<>>]
        r1 == IF ScanOn(sli, count)
              THEN Stage(r0, "scan", ScanLines(r0.heap[r0.ref], sli, count))
              ELSE r0
        r2 == IF GrainOn(noise)
              THEN Stage(r1, "grain", Grain(r1.heap[r1.ref], noise, seed))
              ELSE r1
        r3 == IF TrackingOn(tracking)
              THEN Stage(r2, "tracking", GridSample(r2.heap[r2.ref], tracking))
              ELSE r2
    IN  Stage(r3, "clamp", ClampBatch(r3.heap[r3.ref]).px)

(***************************************************************************)
(* warhol                                                                  *)
(***************************************************************************)

\* _PALETTE_DATA: 6 palettes x 8 colours, dark to light, channels in hundredths.
PALETTE_DATA ==
  <<
    << <<6, 3, 8>>,
       <<38, 6, 44>>,
       <<90, 10, 55>>,
       <<98, 42, 10>>,
       <<99, 90, 6>>,
       <<5, 80, 78>>,
       <<25, 95, 55>>,
       <<98, 96, 86>> >>,
    << <<2, 2, 9>>,
       <<30, 0, 85>>,
       <<96, 0, 62>>,
       <<10, 98, 22>>,
       <<0, 70, 100>>,
       <<100, 96, 5>>,
       <<100, 45, 0>>,
       <<98, 90, 96>> >>,
    << <<5, 5, 6>>,
       <<22, 16, 55>>,
       <<55, 10, 10>>,
       <<98, 84, 5>>,
       <<95, 55, 5>>,
       <<10, 75, 65>>,
       <<70, 95, 15>>,
       <<98, 96, 88>> >>,
    << <<5, 5, 6>>,
       <<55, 0, 10>>,
       <<95, 5, 8>>,
       <<98, 78, 6>>,
       <<5, 40, 95>>,
       <<95, 95, 92>>,
       <<80, 80, 78>>,
       <<99, 98, 90>> >>,
    << <<6, 4, 3>>,
       <<10, 25, 75>>,
       <<85, 5, 8>>,
       <<98, 85, 5>>,
       <<0, 65, 55>>,
       <<98, 55, 12>>,
       <<95, 82, 70>>,
       <<99, 97, 88>> >>,
    << <<3, 6, 5>>,
       <<0, 55, 20>>,
       <<65, 98, 5>>,
       <<5, 70, 100>>,
       <<98, 20, 55>>,
       <<98, 55, 5>>,
       <<100, 90, 8>>,
       <<99, 95, 88>> >>
  >>

\* floor(sqrt(v)), by bisection on lo..hi
RECURSIVE IsqrtIn(_, _, _)
IsqrtIn(v, lo, hi) ==
    IF lo >= hi THEN lo
    ELSE LET mid == (lo + hi + 1) \div 2
         IN  IF mid * mid <= v THEN IsqrtIn(v, mid, hi) ELSE IsqrtIn(v, lo, mid - 1)

Isqrt(v) == IsqrtIn(v, 0, 40000)

\* g / g.sum() for kernel_size 5, sigma 1.5, in hundredths (they sum to 100)
GaussKernel == <<12, 23, 30, 23, 12>>

\* One pass of _gaussian_blur_nchw over a (T, H, W, C) field px: replicate
\* padding of 2, then the 5-tap kernel along W (horizontal) or along H.
BlurPass(b, px, horizontal) ==
    Force([p \in DOMAIN px |->
        Round(
            LET tap(k) ==
                    IF horizontal
                    THEN px[<<p[1], p[2], Clamp(p[3] + k - 3, 0, b.W - 1), p[4]>>]
                    ELSE px[<<p[1], Clamp(p[2] + k - 3, 0, b.H - 1), p[3], p[4]>>]
            IN  GaussKernel[1] * tap(1) + GaussKernel[2] * tap(2) + GaussKernel[3] * tap(3)
                + GaussKernel[4] * tap(4) + GaussKernel[5] * tap(5),
            100)])

\* _gaussian_blur_nchw: horizontal pass, then vertical pass
GaussianBlur(b) == BlurPass(b, BlurPass(b, b.px, TRUE), FALSE)

Plane(b) == (0 .. b.T - 1) \X (0 .. b.H - 1) \X (0 .. b.W - 1)

\* BT.601 luminance of the blurred image
Luma(b, blurred) ==
    Force([q \in Plane(b) |->
        Round(299 * blurred[<<q[1], q[2], q[3], 0>>] + 587 * blurred[<<q[1], q[2], q[3], 1>>]
              + 114 * blurred[<<q[1], q[2], q[3], 2>>], 1000)])

\* _sobel_edges: replicate padding of 1, the two 3x3 kernels, sqrt(gx^2 + gy^2);
\* the magnitude is in units of 1e-5.
SobelEdges(b, luma) ==
    Force([q \in Plane(b) |->
        LET at(dy, dx) == luma[<<q[1], Clamp(q[2] + dy, 0, b.H - 1), Clamp(q[3] + dx, 0, b.W - 1)>>]
            gx == (at(-1, 1) - at(-1, -1)) + 2 * (at(0, 1) - at(0, -1)) + (at(1, 1) - at(1, -1))
            gy == (at(1, -1) - at(-1, -1)) + 2 * (at(1, 0) - at(-1, 0)) + (at(1, 1) - at(-1, 1))
        IN  Round(Isqrt(gx * gx + gy * gy) * 1000, Scale \div 100)])

\* The guard of the normalisation, clamp(min=1e-5), in units of 1e-5.
EMaxMin == 1

\* e_max of frame t: the frame's largest magnitude, at least EMaxMin
EMax(b, mag, t) ==
    LET frame == {mag[q] : q \in {q \in Plane(b) : q[1] = t}}
    IN  Max(CHOOSE m \in frame : \A k \in frame : k <= m, EMaxMin)

\* A faulty threshold: >= instead of >.
IsEdgeOrEqual(m, emax, thresh) == m * 100 >= thresh * emax

\* edge_norm > edge_thresh, edge_norm = edge_mag / e_max, thresh in hundredths
IsEdge(m, emax, thresh) == m * 100 > thresh * emax

\* ink_mask before the dilation, 0 or 1
InkMask(b, mag, thresh) ==
    LET emax == [t \in 0 .. b.T - 1 |-> EMax(b, mag, t)]
    IN  Force([q \in Plane(b) |-> IF IsEdge(mag[q], emax[q[1]], thresh) THEN 1 ELSE 0])

\* F.max_pool2d(ink_mask, kernel_size=3, stride=1, padding=1)
Dilate(b, mask) ==
    Force([q \in Plane(b) |->
        IF \E dy \in {-1, 0, 1}, dx \in {-1, 0, 1} :
              /\ q[2] + dy \in 0 .. b.H - 1
              /\ q[3] + dx \in 0 .. b.W - 1
              /\ mask[<<q[1], q[2] + dy, q[3] + dx>>] = 1
        THEN 1 ELSE 0])

\* A faulty level count: posterize taken as given.
NLevelsUnclamped(posterize) == posterize

\* n_levels = max(int(posterize), 2)
NLevels(posterize) == Max(posterize, 2)

\* band_idx = (luma * (n_levels - 1)).round().long().clamp(0, n_levels - 1)
BandIdx(b, luma, n) ==
    Force([q \in Plane(b) |-> Clamp(Round(luma[q] * (n - 1), Scale), 0, n - 1)])

\* A faulty palette index: palette taken as given.
PalIdxUnclamped(palette) == palette

\* pal_idx = max(0, min(int(palette), len(_PALETTE_DATA) - 1))
PalIdx(palette) == Max(0, Min(palette, Len(PALETTE_DATA) - 1))

\* The n evenly spaced values rounded to nearest instead of truncated.
LinspaceRounded(n) == [i \in 1 .. n |-> IF n <= 1 THEN 0 ELSE Round(7 * (i - 1), n - 1)]
\* torch.linspace(0, 7, n).long(): the n evenly spaced values, truncated
LinspaceLong(n) == [i \in 1 .. n |-> IF n <= 1 THEN 0 ELSE Trunc(7 * (i - 1), n - 1)]

\* The 0-based palette entries selected for n levels: pal_8[:n] when n >= 8
\* (the 8 there are), pal_8[sample_indices] otherwise.
SampleIndices(n) ==
    IF n >= 8 THEN [i \in 1 .. 8 |-> i - 1] ELSE LinspaceLong(n)

\* Indexing a dimension of size n with integer k, as Python and torch do: k
\* in -n .. n-1 is accepted, a negative k counting from the end; any other k
\* raises IndexError.
IndexOk(n, k) == -n <= k /\ k < n
IndexPos(n, k) == IF k < 0 THEN k + n ELSE k

\* colours[flat_idx]: the colour of band k among the selected ones, in Scale units
Remap(pal8, sel, k, c) == pal8[sel[IndexPos(Len(sel), k) + 1] + 1][c + 1] * (Scale \div 100)

\* result * (1.0 - ink * ink_hw), ink in hundredths, when ink > 0
InkOverlay(v, ink, m) == IF ink > 0 THEN Round(v * (100 - ink * m), 100) ELSE v

\* warhol(frames, palette, posterize, ink, edge_thresh) on heap hp, frames =
\* storage f, with the palette table pals: the heap after the call, the
\* storage returned (0 when the call raised) and what was computed on the way.
warhol(hp, f, pals, palette, posterize, ink, thresh) ==
    LET b == hp[f]
        blurred == GaussianBlur(b)
        luma == Luma(b, blurred)
        mag == SobelEdges(b, luma)
        mask0 == InkMask(b, mag, thresh)
        mask == Dilate(b, mask0)
        n == NLevels(posterize)
        band == BandIdx(b, luma, n)
        pi == PalIdx(palette)
        sel == SampleIndices(n)
        ok == /\ IndexOk(Len(pals), pi)
              /\ \A q \in Plane(b) : IndexOk(Len(sel), band[q])
        pre == IF ok
               THEN Force([p \in DOMAIN b.px |->
                        Remap(pals[IndexPos(Len(pals), pi) + 1], sel,
                              band[<<p[1], p[2], p[3]>>], p[4])])
               ELSE <<>>
        out == [p \in DOMAIN b.px |->
                   Clamp(InkOverlay(pre[p], ink, mask[<<p[1], p[2], p[3]>>]), 0, Scale)]
        a == IF ok THEN Alloc(hp, [b EXCEPT !.px = Force(out)]) ELSE [heap |-> hp, ref |-> 0]
    IN  [heap |-> a.heap, ref |-> a.ref,
         err |-> IF ok THEN "none" ELSE "IndexError",
         n_levels |-> n, pal_idx |-> pi, sample |-> sel, band |-> band,
         e_max |-> [t \in 0 .. b.T - 1 |-> EMax(b, mag, t)],
         edge_mag |-> mag, ink0 |-> mask0, ink_mask |-> mask, pre |-> pre]

(***************************************************************************)
(* VFXPipeline.__call__                                                    *)
(***************************************************************************)

\* frames = torch.stack(...).to(dtype=float32) / 255.0: where the chain starts
ChainStart(hp, f) ==
    Alloc(hp, Normalise(hp[f])) @@ [err |-> "none", calls |-> <<>>]

\* One entry of the effect chain has run: frames is rebound to what the
\* effect returned, and the call is noted with the batch it got and gave.
Called(st, name, res) ==
    [heap |-> res.heap, ref |-> res.ref,
     err |-> IF name = "warhol" THEN res.err ELSE "none",
     calls |-> Append(st.calls, [fn |-> name, inp |-> st.heap[st.ref],
                                 out |-> IF res.ref = 0 THEN <<>> ELSE res.heap[res.ref]])]

\* if kwargs.get("chromatic_enabled"): frames = chromatic_aberration(frames, ...)
ChromaticStep(st, k) ==
    IF st.err = "none" /\ k.chromatic_enabled
    THEN Called(st, "chromatic_aberration",
                chromatic_aberration(st.heap, st.ref, k.chromatic_intensity, k.chromatic_angle))
    ELSE st

\* if kwargs.get("vhs_enabled"): frames = vhs_retro(frames, ...)
VhsStep(st, k, seed) ==
    IF st.err = "none" /\ k.vhs_enabled
    THEN Called(st, "vhs_retro",
                vhs_retro(st.heap, st.ref, k.scan_line_intensity, k.scan_line_count,
                          k.vhs_noise, k.tracking_distortion, seed))
    ELSE st

\* if kwargs.get("warhol_enabled"): frames = warhol(frames, ...)
WarholStep(st, pals, k) ==
    IF st.err = "none" /\ k.warhol_enabled
    THEN Called(st, "warhol",
                warhol(st.heap, st.ref, pals, k.warhol_palette, k.warhol_posterize,
                       k.warhol_ink, k.warhol_edge_thresh))
    ELSE st

\* return {"video": frames.clamp(0, 1)}
ChainEnd(st) ==
    IF st.err = "none"
    THEN Alloc(st.heap, ClampBatch(st.heap[st.ref])) @@ [err |-> st.err, calls |-> st.calls]
    ELSE [heap |-> st.heap, ref |-> 0, err |-> st.err, calls |-> st.calls]

\* The chain with its first two entries in the other order.
PipelineCallSwapped(hp, f, pals, k, seed) ==
    ChainEnd(WarholStep(ChromaticStep(VhsStep(ChainStart(hp, f), k, seed), k), pals, k))

\* VFXPipeline.__call__(video=..., **k) on heap hp, the stacked input frames
\* being storage f.
PipelineCall(hp, f, pals, k, seed) ==
    ChainEnd(WarholStep(VhsStep(ChromaticStep(ChainStart(hp, f), k), k, seed), pals, k))

(***************************************************************************)
(* Arguments                                                               *)
(***************************************************************************)

\* How far past its documented range an integer argument is tried.
PaletteSlack == 1
PosterizeSlack == 2
MaxPosterize == 9
\* How many outcomes of the random generator are tried.
MaxSeeds == 2

Intensities == {-10, 0, 4, 5, 30, 100}          \* hundredths
Angles == {0, 45, 90, 180, 270}                 \* degrees
ScanIntensities == {0, 30, 100}                 \* hundredths
ScanLineCounts == {1, 10, 100}
Noises == {0, 10, 100}                          \* hundredths
Trackings == {0, 20, 100}                       \* hundredths
Seeds == 1 .. MaxSeeds
PaletteArgs == (0 - PaletteSlack) .. (Len(PALETTE_DATA) - 1 + PaletteSlack)
PosterizeArgs == (2 - PosterizeSlack) .. MaxPosterize
Inks == {0, 70}                                 \* hundredths
EdgeThreshs == {0, 15, 100}                     \* hundredths

\* The keyword arguments of a pipeline call: the three enable flags with the
\* defaults of VFXConfig, or with another setting of every slider.
Sliders ==
    { [chromatic_intensity |-> 30, chromatic_angle |-> 0,
       scan_line_intensity |-> 30, scan_line_count |-> 100, vhs_noise |-> 10,
       tracking_distortion |-> 20,
       warhol_palette |-> 0, warhol_posterize |-> 4, warhol_ink |-> 70,
       warhol_edge_thresh |-> 15],
      [chromatic_intensity |-> 100, chromatic_angle |-> 90,
       scan_line_intensity |-> 100, scan_line_count |-> 10, vhs_noise |-> 0,
       tracking_distortion |-> 0,
       warhol_palette |-> 5, warhol_posterize |-> 8, warhol_ink |-> 0,
       warhol_edge_thresh |-> 0],
      [chromatic_intensity |-> 0, chromatic_angle |-> 45,
       scan_line_intensity |-> 0, scan_line_count |-> 10, vhs_noise |-> 100,
       tracking_distortion |-> 100,
       warhol_palette |-> 3, warhol_posterize |-> 2, warhol_ink |-> 100,
       warhol_edge_thresh |-> 100] }

Kwargs ==
    { s @@ [chromatic_enabled |-> c, vhs_enabled |-> v, warhol_enabled |-> w] :
        s \in Sliders, c \in BOOLEAN, v \in BOOLEAN, w \in BOOLEAN }

(***************************************************************************)
(* The state machine: the caller holds a batch, then makes one call.       *)
(***************************************************************************)

Init ==
    /\ \E b \in Batches \cup RawBatches \cup {RawHot} : heap = (1 :> b) /\ snap = b
    /\ arg = 1
    /\ ret = 0
    /\ op = "none"
    /\ par = <<>>
    /\ aux = <<>>
    /\ err = "none"
    /\ palettes = PALETTE_DATA

Returned(r) ==
    /\ heap' = Collect(r.heap, {arg, r.ref})
    /\ ret' = r.ref
    /\ UNCHANGED <<arg, snap, palettes>>

ChromaticCall ==
    /\ op = "none"
    /\ heap[arg] \in Batches
    /\ \E intensity \in Intensities, angle \in Angles :
         LET r == chromatic_aberration(heap, arg, intensity, angle)
         IN  /\ Returned(r)
             /\ op' = "chromatic"
             /\ par' = [intensity |-> intensity, angle |-> angle]
             /\ aux' = [dx |-> r.dx, dy |-> r.dy]
             /\ err' = "none"

VhsCall ==
    /\ op = "none"
    /\ heap[arg] \in Batches
    /\ \E sli \in ScanIntensities, count \in ScanLineCounts, noise \in Noises,
          tracking \in Trackings, seed \in Seeds :
         LET r == vhs_retro(heap, arg, sli, count, noise, tracking, seed)
         IN  /\ Returned(r)
             /\ op' = "vhs"
             /\ par' = [scan_line_intensity |-> sli, scan_line_count |-> count,
                        noise |-> noise, tracking |-> tracking]
             /\ aux' = [stages |-> r.trace]
             /\ err' = "none"

WarholCall ==
    /\ op = "none"
    /\ heap[arg] \in Batches
    /\ \E palette \in PaletteArgs, posterize \in PosterizeArgs, ink \in Inks,
          thresh \in EdgeThreshs :
         LET r == warhol(heap, arg, palettes, palette, posterize, ink, thresh)
         IN  /\ Returned(r)
             /\ op' = "warhol"
             /\ par' = [palette |-> palette, posterize |-> posterize, ink |-> ink,
                        edge_thresh |-> thresh]
             /\ aux' = [n_levels |-> r.n_levels, pal_idx |-> r.pal_idx,
                        sample |-> r.sample, band |-> r.band, e_max |-> r.e_max,
                        edge_mag |-> r.edge_mag, ink0 |-> r.ink0,
                        ink_mask |-> r.ink_mask, pre |-> r.pre]
             /\ err' = r.err

PipelineRun ==
    /\ op = "none"
    /\ heap[arg] \in RawBatches \cup {RawHot}
    /\ \E k \in Kwargs, seed \in Seeds :
         LET r == PipelineCall(heap, arg, palettes, k, seed)
         IN  /\ Returned(r)
             /\ op' = "pipeline"
             /\ par' = k
             /\ aux' = [calls |-> r.calls]
             /\ err' = r.err

Next == ChromaticCall \/ VhsCall \/ WarholCall \/ PipelineRun

Spec == Init /\ [][Next]_vars

(***************************************************************************)
(* Properties                                                              *)
(***************************************************************************)

EffectCalled == op \in {"chromatic", "vhs", "warhol"}

\* The batch the call returned.
Out == heap[ret]

\* C1: whatever the three enable flags, the pipeline calls the enabled effects
\* in the order chromatic_aberration, vhs_retro, warhol and no disabled one;
\* the first gets the normalised input, each next one what the previous one
\* returned, and the output is the last result clamped to [0,1] (with all
\* flags off: the normalised input, clamped).
C1_ChainOrder ==
    op = "pipeline" =>
        LET calls == aux.calls
            last == IF calls = <<>> THEN Normalise(snap) ELSE calls[Len(calls)].out
        IN  /\ [i \in DOMAIN calls |-> calls[i].fn]
                 = (IF par.chromatic_enabled THEN <<"chromatic_aberration">> ELSE <<>>)
                   \o (IF par.vhs_enabled THEN <<"vhs_retro">> ELSE <<>>)
                   \o (IF par.warhol_enabled THEN <<"warhol">> ELSE <<>>)
            /\ \A i \in DOMAIN calls :
                 calls[i].inp = IF i = 1 THEN Normalise(snap) ELSE calls[i - 1].out
            /\ err = "none"
            /\ \A p \in DOMAIN snap.px : Out.px[p] = Min(Max(last.px[p], 0), Scale)
            /\ (~par.chromatic_enabled /\ ~par.vhs_enabled /\ ~par.warhol_enabled)
                 => \A p \in DOMAIN snap.px :
                      Out.px[p] = Min(Max((snap.px[p] * Scale) \div 255, 0), Scale)

C1_Witness ==
    /\ op = "pipeline"
    /\ par.chromatic_enabled /\ par.vhs_enabled /\ par.warhol_enabled
    /\ Len(aux.calls) = 3
    /\ aux.calls[1].out # aux.calls[1].inp
    /\ aux.calls[2].out # aux.calls[2].inp

\* C2: when the shift (dy, dx) is not zero, channel 0 of the output at (y, x)
\* is channel 0 of the input at ((y - dy) mod H, (x - dx) mod W), channel 2 is
\* the input at ((y + dy) mod H, (x + dx) mod W), channel 1 is the input's;
\* intensity 0.3 at angle 0 is shift 6 and acts on a 4-wide frame as shift 2.
C2_ToroidalRoll ==
    (op = "chromatic" /\ (aux.dx # 0 \/ aux.dy # 0)) =>
        /\ \A p \in DOMAIN snap.px :
             LET t == p[1]
                 y == p[2]
                 x == p[3]
             IN  /\ p[4] = 0 =>
                       Out.px[p] = snap.px[<<t, (y - aux.dy) % snap.H, (x - aux.dx) % snap.W, 0>>]
                 /\ p[4] = 2 =>
                       Out.px[p] = snap.px[<<t, (y + aux.dy) % snap.H, (x + aux.dx) % snap.W, 2>>]
                 /\ p[4] = 1 => Out.px[p] = snap.px[p]
        /\ (par.intensity = 30 /\ par.angle = 0 /\ snap.W = 4) =>
             /\ aux.dx = 6 /\ aux.dy = 0
             /\ \A p \in DOMAIN snap.px :
                  p[4] = 0 => Out.px[p] = snap.px[<<p[1], p[2], (p[3] + 2) % 4, 0>>]

C2_Witness ==
    /\ op = "chromatic"
    /\ aux.dx = 6 /\ snap.W = 4
    /\ \E p \in DOMAIN snap.px : Out.px[p] # snap.px[p]

\* The colours warhol selected from the palette, in Scale units.
SelectedColours ==
    { [c \in 0 .. 2 |-> palettes[aux.pal_idx + 1][aux.sample[i] + 1][c + 1] * (Scale \div 100)] :
        i \in DOMAIN aux.sample }

\* C3: for every palette, every posterize level (above 8 too) and every
\* luminance, the remap is defined for each pixel's band and gives the pixel,
\* before the ink overlay, one of the selected palette colours.
C3_RemapDefined ==
    op = "warhol" =>
        /\ err = "none"
        /\ \A q \in Plane(snap) :
             /\ aux.band[q] + 1 \in DOMAIN aux.sample
             /\ [c \in 0 .. 2 |-> aux.pre[<<q[1], q[2], q[3], c>>]] \in SelectedColours

\* C4 as stated: for 2 <= n < 8 the selected palette entries are
\* round(7 * i / (n - 1)), i = 0 .. n-1, strictly increasing from 0 to 7.
C4_RoundedLinspace ==
    (op = "warhol" /\ aux.n_levels < 8) =>
        /\ Len(aux.sample) = aux.n_levels
        /\ \A i \in 1 .. aux.n_levels :
             LET num == 7 * (i - 1)
                 den == aux.n_levels - 1
                 q == num \div den
             IN  aux.sample[i] = IF 2 * (num - q * den) < den THEN q
                                 ELSE IF 2 * (num - q * den) > den THEN q + 1
                                 ELSE q + (q % 2)
        /\ \A i \in 1 .. aux.n_levels - 1 : aux.sample[i] < aux.sample[i + 1]
        /\ aux.sample[1] = 0 /\ aux.sample[aux.n_levels] = 7

\* C4 amended: for 2 <= n < 8 the selected palette entries are
\* floor(7 * i / (n - 1)), i = 0 .. n-1 (linspace truncated, not rounded),
\* strictly increasing from 0 to 7.
C4_TruncatedLinspace ==
    (op = "warhol" /\ aux.n_levels < 8) =>
        /\ Len(aux.sample) = aux.n_levels
        /\ \A i \in 1 .. aux.n_levels :
             aux.sample[i] = (7 * (i - 1)) \div (aux.n_levels - 1)
        /\ \A i \in 1 .. aux.n_levels - 1 : aux.sample[i] < aux.sample[i + 1]
        /\ aux.sample[1] = 0 /\ aux.sample[aux.n_levels] = 7

C4_Witness ==
    /\ op = "warhol"
    /\ par.posterize = 4
    /\ aux.sample = <<0, 2, 4, 7>>
    /\ err = "none"

C6_ZeroShiftIdentity ==
    (op = "chromatic" /\ (par.intensity = 0 \/ (par.intensity * 20) \div 100 = 0)) =>
        /\ ret = arg
        /\ \A p \in DOMAIN snap.px : Out.px[p] = snap.px[p]

C6_Witness ==
    /\ op = "chromatic"
    /\ par.intensity = 4 /\ par.angle = 45
    /\ ret = arg

\* C7: warhol uses n = max(posterize, 2) levels, every band index is in
\* 0 .. n-1, so at most max(posterize, 2) bands are used; a posterize below 2
\* is not rejected and gives what posterize = 2 gives.
C7_BandCount ==
    op = "warhol" =>
        LET n == IF par.posterize >= 2 THEN par.posterize ELSE 2
        IN  /\ aux.n_levels = n
            /\ \A q \in Plane(snap) : aux.band[q] \in 0 .. n - 1
            /\ Cardinality({aux.band[q] : q \in Plane(snap)}) <= n
            /\ par.posterize < 2 =>
                 /\ err = "none"
                 /\ aux.sample = <<0, 7>>
                 /\ Out = warhol((1 :> snap), 1, palettes, par.palette, 2, par.ink,
                                 par.edge_thresh).heap[2]

C7_Witness ==
    /\ op = "warhol"
    /\ par.posterize = 0
    /\ Cardinality({aux.band[q] : q \in Plane(snap)}) = 2
    /\ err = "none"

\* C8: no effect changes the batch it was given: after the call the caller's
\* batch holds what it held before, and what came back is that very batch
\* only when it equals the input, and otherwise its own storage.
C8_InputUntouched ==
    EffectCalled =>
        /\ heap[arg] = snap
        /\ err = "none" => ret \in DOMAIN heap
        /\ (err = "none" /\ Out # snap) => ret # arg

C8_Witness ==
    /\ op = "chromatic"
    /\ ret # arg
    /\ Out # snap
    /\ heap[arg] = snap

\* C9: warhol uses palette min(max(palette, 0), 5) for every integer palette
\* argument; the palette lookup never fails (a call raises only where a band
\* index has no selected colour), and the palette table is never modified.
C9_PaletteClamped ==
    /\ palettes = PALETTE_DATA
    /\ op = "warhol" =>
         /\ aux.pal_idx = (IF par.palette < 0 THEN 0 ELSE IF par.palette > 5 THEN 5 ELSE par.palette)
         /\ err = "none" \/ \E q \in Plane(snap) : aux.band[q] >= Len(aux.sample)
         /\ err = "none" =>
              \A q \in Plane(snap), c \in 0 .. 2 :
                 aux.pre[<<q[1], q[2], q[3], c>>]
                   = PALETTE_DATA[aux.pal_idx + 1][aux.sample[aux.band[q] + 1] + 1][c + 1]
                     * (Scale \div 100)

C9_Witness ==
    /\ op = "warhol"
    /\ par.palette = 6
    /\ aux.pal_idx = 5
    /\ err = "none"

\* The frames of the batch whose gradient magnitude is 0 everywhere.
FlatFrames == {t \in 0 .. snap.T - 1 : \A q \in Plane(snap) : q[1] = t => aux.edge_mag[q] = 0}

\* C10: a flat frame is normalised by the guard's minimum denominator, none
\* of its pixels is in the ink mask before or after the dilation whatever the
\* threshold, and each output pixel is the palette colour of its band,
\* not darkened, whatever the ink.
C10_FlatFrameNoInk ==
    op = "warhol" =>
        \A t \in FlatFrames :
            /\ aux.e_max[t] = EMaxMin
            /\ \A q \in Plane(snap) : q[1] = t =>
                 /\ aux.ink0[q] = 0
                 /\ aux.ink_mask[q] = 0
                 /\ err = "none" =>
                      \A c \in 0 .. 2 :
                         Out.px[<<q[1], q[2], q[3], c>>]
                           = palettes[aux.pal_idx + 1][aux.sample[aux.band[q] + 1] + 1][c + 1]
                             * (Scale \div 100)

C10_Witness ==
    /\ op = "warhol"
    /\ FlatFrames # {}
    /\ par.ink = 70 /\ par.edge_thresh = 0
    /\ err = "none"

====
